---- MODULE Spec2Model ----
(***************************************************************************)
(* Jewelry storefront: order creation from a guest cart (createOrder),     *)
(* the cart handlers, the admin catalog handlers and the admin token       *)
(* check (adminLogin / verifyAdminToken) that gates them.                  *)
(*                                                                         *)
(* The database tables are sets of rows keyed by their serial id.  Money   *)
(* is kept in hundredths (the numeric(10,2) columns), so parseFloat,       *)
(* the float sum of a handful of terms and the rounding of the numeric     *)
(* column on insert give back the exact number of hundredths.  Display     *)
(* columns (name, description, materials, category, image_url,             *)
(* is_featured, timestamps, customer fields) carry no behaviour and are    *)
(* left out of the rows.                                                   *)
(*                                                                         *)
(* Every await on the database is a point where another request may run:   *)
(* a handler with several statements is several actions.  A statement and  *)
(* a db.transaction are each one atomic action.                            *)
(***************************************************************************)
EXTENDS Integers, Sequences, FiniteSets, TLC

\* ---- bounds ----
MaxStock == 3        \* largest stock_quantity an admin request sets
MaxQty == 2          \* largest quantity a cart request asks for
MaxCartId == 2       \* cart_items rows ever inserted
MaxOrderId == 2      \* orders rows ever inserted
MaxItemId == 2       \* jewelry_items rows ever inserted
MaxTokens == 1       \* tokens issued by adminLogin and still held by clients

Sessions == {"s1", "s2"}
Procs == {"p1", "p2"}
Prices == {599, 1999}
Quantities == 1..MaxQty
OrderStatus == {"pending", "processing", "shipped", "delivered", "cancelled"}

VARIABLES
  jewelry_items,   \* jewelryItemsTable: rows [id, price, stock_quantity]
  cart_items,      \* cartItemsTable: rows [id, session_id, jewelry_item_id, quantity]
  orders,          \* ordersTable: rows [id, session_id, total_amount, status]
  order_items,     \* orderItemsTable: rows [id, order_id, jewelry_item_id, quantity, price_at_time]
  seq,             \* next value of each table's serial id
  admin_users,     \* adminUsersTable: rows [id, username, password_hash]
  JWT_SECRET,      \* process.env['JWT_SECRET']
  now,             \* the clock, in seconds
  tokens,          \* tokens returned by adminLogin, held by clients
  req,             \* per request slot: the handler in flight and its locals
  last             \* the response of the handler that completed last

db == <<jewelry_items, cart_items, orders, order_items, seq>>
auth == <<admin_users, JWT_SECRET, now, tokens>>
vars == <<jewelry_items, cart_items, orders, order_items, seq,
          admin_users, JWT_SECRET, now, tokens, req, last>>

\* ---- generic helpers ----
RECURSIVE SumOver(_, _)
SumOver(f, S) ==
  IF S = {} THEN 0
  ELSE LET x == CHOOSE y \in S : TRUE IN f[x] + SumOver(f, S \ {x})

RECURSIVE SortById(_)
SortById(rows) ==
  IF rows = {} THEN <<>>
  ELSE LET r == CHOOSE x \in rows : \A y \in rows : x.id <= y.id
       IN <<r>> \o SortById(rows \ {r})

\* ---- request slots ----
Idle ==
  [pc |-> "idle", session_id |-> "", cartItems |-> <<>>, totalAmount |-> 0,
   jewelry_item_id |-> 0, quantity |-> 0, stock_quantity |-> 0,
   existingId |-> 0, newQuantity |-> 0]

\* ---- tokens ----
\* a JSON value of the payload, as far as the handlers look at it
Undefined == [type |-> "undefined", num |-> 0]
Num(n) == [type |-> "number", num |-> n]
Str == [type |-> "string", num |-> 0]

\* JavaScript truthiness: undefined and 0 are falsy, a non-empty string is truthy
Truthy(v) == \/ v.type = "number" /\ v.num # 0
             \/ v.type = "string"

Payload(sub, userId, id, exp) == [sub |-> sub, userId |-> userId, id |-> id, exp |-> exp]
NoPayload == Payload(Undefined, Undefined, Undefined, Undefined)

\* HMAC-SHA256 over header.payload: equal exactly for the same key and data
Sign(key, payload) == [key |-> key, payload |-> payload]

\* shape "jwt": three dot-separated parts holding base64 JSON; "empty": '';
\* "none": no string at all (undefined or null);
\* "parts": not three parts; "json": three parts that do not decode to JSON
Jwt(payload, signature) == [shape |-> "jwt", payload |-> payload, signature |-> signature]
RawToken(shape) == [shape |-> shape, payload |-> NoPayload, signature |-> Sign("", NoPayload)]
NoToken == RawToken("none")

\* the request that completed last and what its caller got back: the return
\* value ("null", "order", "cart", "true", ...), "throw" for an exception, or
\* "unauthorized" for the admin routes' Unauthorized error
AdminResponse(op, token, id, result) ==
  [op |-> op, session_id |-> "", id |-> id, token |-> token, result |-> result]
Response(op, sessionId, id, result) ==
  [op |-> op, session_id |-> sessionId, id |-> id, token |-> NoToken, result |-> result]

\* the number of slots whose handler is at one of the given places
InFlight(pcs) == Cardinality({p \in Procs : req[p].pc \in pcs})

\* ---- createOrder: step 1, the cart joined with its jewelry items ----
CartJoin(sessionId) ==
  SortById({[id |-> c.id,
             quantity |-> c.quantity,
             jewelryItemId |-> j.id,
             jewelryItemPrice |-> j.price,
             jewelryItemStockQuantity |-> j.stock_quantity] :
            <<c, j>> \in {cj \in cart_items \X jewelry_items :
                            /\ cj[1].jewelry_item_id = cj[2].id
                            /\ cj[1].session_id = sessionId}})

\* (mutant) the empty-cart return left out
EmptyCartNever(cartItems) == FALSE

\* the empty-cart return
EmptyCart(cartItems) == Len(cartItems) = 0

\* (mutant) the stock check looks at the first line only
InsufficientStockFirstLine(cartItems) ==
  /\ Len(cartItems) > 0
  /\ cartItems[1].quantity > cartItems[1].jewelryItemStockQuantity

\* step 2: the per-line stock check
InsufficientStock(cartItems) ==
  \E i \in 1..Len(cartItems) :
     cartItems[i].quantity > cartItems[i].jewelryItemStockQuantity

\* (mutant) the total adds the prices without the quantities
RECURSIVE TotalAmountNoQuantity(_, _)
TotalAmountNoQuantity(cartItems, i) ==
  IF i > Len(cartItems) THEN 0
  ELSE cartItems[i].jewelryItemPrice + TotalAmountNoQuantity(cartItems, i + 1)

\* step 3: the total
RECURSIVE TotalAmount(_, _)
TotalAmount(cartItems, i) ==
  IF i > Len(cartItems) THEN 0
  ELSE cartItems[i].jewelryItemPrice * cartItems[i].quantity
       + TotalAmount(cartItems, i + 1)

\* the select, the empty-cart return, the stock check and the total: the code
\* up to the await of db.transaction
CreateOrderLoad(p, sessionId) ==
  /\ req[p].pc = "idle"
  /\ LET cartItems == CartJoin(sessionId) IN
       IF EmptyCart(cartItems) \/ InsufficientStock(cartItems)
       THEN /\ last' = Response("createOrder", sessionId, 0, "null")
            /\ UNCHANGED req
       ELSE /\ seq.orders + InFlight({"transaction"}) <= MaxOrderId
            /\ req' = [req EXCEPT ![p] =
                         [Idle EXCEPT !.pc = "transaction",
                                      !.session_id = sessionId,
                                      !.cartItems = cartItems,
                                      !.totalAmount = TotalAmount(cartItems, 1)]]
            /\ UNCHANGED last
  /\ UNCHANGED <<db, auth>>

\* ---- the statements of the transaction, on a working copy d of the tables ----
Tables ==
  [jewelry_items |-> jewelry_items, cart_items |-> cart_items,
   orders |-> orders, order_items |-> order_items, seq |-> seq]

\* (mutant) the order is written before its total is known
InsertOrderNoTotal(d, sessionId, totalAmount) ==
  [d EXCEPT !.orders = @ \cup {[id |-> d.seq.orders,
                                 session_id |-> sessionId,
                                 total_amount |-> 0,
                                 status |-> "pending"]},
            !.seq.orders = @ + 1]

InsertOrder(d, sessionId, totalAmount) ==
  [d EXCEPT !.orders = @ \cup {[id |-> d.seq.orders,
                                 session_id |-> sessionId,
                                 total_amount |-> totalAmount,
                                 status |-> "pending"]},
            !.seq.orders = @ + 1]

\* (mutant) the price of the line is read again when the line is written
InsertOrderItemCurrentPrice(d, orderId, cartItem) ==
  [d EXCEPT !.order_items = @ \cup {[id |-> d.seq.order_items,
                                      order_id |-> orderId,
                                      jewelry_item_id |-> cartItem.jewelryItemId,
                                      quantity |-> cartItem.quantity,
                                      price_at_time |->
                                        IF \E j \in d.jewelry_items : j.id = cartItem.jewelryItemId
                                        THEN (CHOOSE j \in d.jewelry_items :
                                                j.id = cartItem.jewelryItemId).price
                                        ELSE cartItem.jewelryItemPrice]},
            !.seq.order_items = @ + 1]

InsertOrderItem(d, orderId, cartItem) ==
  [d EXCEPT !.order_items = @ \cup {[id |-> d.seq.order_items,
                                      order_id |-> orderId,
                                      jewelry_item_id |-> cartItem.jewelryItemId,
                                      quantity |-> cartItem.quantity,
                                      price_at_time |-> cartItem.jewelryItemPrice]},
            !.seq.order_items = @ + 1]

\* (mutant) the stock is left as it is
UpdateStockSkipped(d, cartItem) == d

\* (mutant) the update has no where clause: every item's stock goes down
UpdateStockEveryItem(d, cartItem) ==
  [d EXCEPT !.jewelry_items =
     {[j EXCEPT !.stock_quantity = @ - cartItem.quantity] : j \in @}]

\* (mutant) the stock goes down by one per line, whatever the quantity
UpdateStockByOne(d, cartItem) ==
  [d EXCEPT !.jewelry_items =
     {IF j.id = cartItem.jewelryItemId
      THEN [j EXCEPT !.stock_quantity = @ - 1]
      ELSE j : j \in @}]

UpdateStock(d, cartItem) ==
  [d EXCEPT !.jewelry_items =
     {IF j.id = cartItem.jewelryItemId
      THEN [j EXCEPT !.stock_quantity = @ - cartItem.quantity]
      ELSE j : j \in @}]

\* (mutant) the delete has no where clause: every session's cart is cleared
ClearCartEverySession(d, sessionId) == [d EXCEPT !.cart_items = {}]

\* (mutant) the cart is not cleared
ClearCartSkipped(d, sessionId) == d

ClearCart(d, sessionId) ==
  [d EXCEPT !.cart_items = {c \in @ : c.session_id # sessionId}]

\* the loop over cartItems: two statements per line; budget is the number of
\* statements that still run before one throws
RECURSIVE OrderLines(_, _, _, _, _)
OrderLines(d, orderId, cartItems, i, budget) ==
  IF i > Len(cartItems) \/ budget <= 0 THEN d
  ELSE LET d1 == InsertOrderItem(d, orderId, cartItems[i])
           d2 == IF budget >= 2 THEN UpdateStock(d1, cartItems[i]) ELSE d1
       IN OrderLines(d2, orderId, cartItems, i + 1, budget - 2)

Statements(r) == 2 * Len(r.cartItems) + 2

\* the callback of db.transaction run for its first `budget` statements
TransactionBody(d, r, budget) ==
  LET d1 == IF budget >= 1
            THEN InsertOrder(d, r.session_id, r.totalAmount) ELSE d
      d2 == OrderLines(d1, d.seq.orders, r.cartItems, 1, budget - 1)
      d3 == IF budget >= Statements(r) THEN ClearCart(d2, r.session_id) ELSE d2
  IN d3

\* (mutant) the statements run outside the transaction: what ran before the
\* throw stays
TransactionNoRollback(d, r, failAt) ==
  IF failAt = 0 THEN TransactionBody(d, r, Statements(r))
  ELSE TransactionBody(d, r, failAt - 1)

\* db.transaction: the callback's writes are committed when it returns and
\* rolled back when a statement throws (failAt # 0 is the statement that throws)
Transaction(d, r, failAt) ==
  IF failAt = 0 THEN TransactionBody(d, r, Statements(r)) ELSE d

CreateOrderTransaction(p, failAt) ==
  /\ req[p].pc = "transaction"
  /\ failAt \in 0..Statements(req[p])
  /\ LET d == Transaction(Tables, req[p], failAt) IN
       /\ jewelry_items' = d.jewelry_items
       /\ cart_items' = d.cart_items
       /\ orders' = d.orders
       /\ order_items' = d.order_items
       /\ seq' = d.seq
  /\ last' = IF failAt = 0
             THEN Response("createOrder", req[p].session_id, seq.orders, "order")
             ELSE Response("createOrder", req[p].session_id, 0, "throw")
  /\ req' = [req EXCEPT ![p] = Idle]
  /\ UNCHANGED auth

\* ---- addToCart: three awaited statements ----
AddToCartPcs == {"existing", "update", "insert"}

\* select the jewelry item; not found and quantity above stock throw
AddToCartItem(p, sessionId, itemId, quantity) ==
  /\ req[p].pc = "idle"
  /\ LET jewelryItems == {j \in jewelry_items : j.id = itemId} IN
       IF jewelryItems = {}
       THEN /\ last' = Response("addToCart", sessionId, itemId, "throw")
            /\ UNCHANGED req
       ELSE LET jewelryItem == CHOOSE j \in jewelryItems : TRUE IN
            IF jewelryItem.stock_quantity < quantity
            THEN /\ last' = Response("addToCart", sessionId, itemId, "throw")
                 /\ UNCHANGED req
            ELSE /\ seq.cart_items + InFlight(AddToCartPcs) <= MaxCartId
                 /\ req' = [req EXCEPT ![p] =
                              [Idle EXCEPT !.pc = "existing",
                                           !.session_id = sessionId,
                                           !.jewelry_item_id = itemId,
                                           !.quantity = quantity,
                                           !.stock_quantity = jewelryItem.stock_quantity]]
                 /\ UNCHANGED last
  /\ UNCHANGED <<db, auth>>

\* select the session's rows for the item; existingCartItems[0] is any of them
AddToCartExisting(p) ==
  /\ req[p].pc = "existing"
  /\ LET r == req[p]
         existingCartItems == {c \in cart_items :
                                 /\ c.session_id = r.session_id
                                 /\ c.jewelry_item_id = r.jewelry_item_id}
     IN IF existingCartItems # {}
        THEN \E existingItem \in existingCartItems :
               LET newQuantity == existingItem.quantity + r.quantity IN
               IF newQuantity > r.stock_quantity
               THEN /\ last' = Response("addToCart", r.session_id, r.jewelry_item_id, "throw")
                    /\ req' = [req EXCEPT ![p] = Idle]
               ELSE /\ req' = [req EXCEPT ![p] = [r EXCEPT !.pc = "update",
                                                           !.existingId = existingItem.id,
                                                           !.newQuantity = newQuantity]]
                    /\ UNCHANGED last
        ELSE /\ req' = [req EXCEPT ![p] = [r EXCEPT !.pc = "insert"]]
             /\ UNCHANGED last
  /\ UNCHANGED <<db, auth>>

\* (mutant) the update writes the quantity asked for, not the sum
AddToCartUpdateOverwrite(p) ==
  /\ req[p].pc = "update"
  /\ LET r == req[p] IN
       /\ cart_items' = {IF c.id = r.existingId
                         THEN [c EXCEPT !.quantity = r.quantity] ELSE c :
                         c \in cart_items}
       /\ last' = Response("addToCart", r.session_id, r.jewelry_item_id,
                           IF \E c \in cart_items : c.id = r.existingId
                           THEN "cart" ELSE "throw")
  /\ req' = [req EXCEPT ![p] = Idle]
  /\ UNCHANGED <<jewelry_items, orders, order_items, seq, auth>>

\* the update of the existing row; when the row is gone updatedItems[0] is
\* undefined and reading cartItem.id throws
AddToCartUpdate(p) ==
  /\ req[p].pc = "update"
  /\ LET r == req[p] IN
       /\ cart_items' = {IF c.id = r.existingId
                         THEN [c EXCEPT !.quantity = r.newQuantity] ELSE c :
                         c \in cart_items}
       /\ last' = Response("addToCart", r.session_id, r.jewelry_item_id,
                           IF \E c \in cart_items : c.id = r.existingId
                           THEN "cart" ELSE "throw")
  /\ req' = [req EXCEPT ![p] = Idle]
  /\ UNCHANGED <<jewelry_items, orders, order_items, seq, auth>>

\* the insert of a new row
AddToCartInsert(p) ==
  /\ req[p].pc = "insert"
  /\ LET r == req[p] IN
       /\ cart_items' = cart_items \cup {[id |-> seq.cart_items,
                                          session_id |-> r.session_id,
                                          jewelry_item_id |-> r.jewelry_item_id,
                                          quantity |-> r.quantity]}
       /\ seq' = [seq EXCEPT !.cart_items = @ + 1]
       /\ last' = Response("addToCart", r.session_id, r.jewelry_item_id, "cart")
  /\ req' = [req EXCEPT ![p] = Idle]
  /\ UNCHANGED <<jewelry_items, orders, order_items, auth>>

\* ---- updateCartItem: the update, then the joined select for the response ----
UpdateCartItem(id, quantity) ==
  /\ cart_items' = {IF c.id = id THEN [c EXCEPT !.quantity = quantity] ELSE c :
                    c \in cart_items}
  /\ last' = Response("updateCartItem", "", id,
                      IF \E c \in cart_items :
                           /\ c.id = id
                           /\ \E j \in jewelry_items : j.id = c.jewelry_item_id
                      THEN "cart" ELSE "null")
  /\ UNCHANGED <<jewelry_items, orders, order_items, seq, auth, req>>

\* ---- removeFromCart: delete the row by id, true when a row was deleted ----
RemoveFromCart(cartItemId) ==
  /\ cart_items' = {c \in cart_items : c.id # cartItemId}
  /\ last' = Response("removeFromCart", "", cartItemId,
                      IF \E c \in cart_items : c.id = cartItemId
                      THEN "true" ELSE "false")
  /\ UNCHANGED <<jewelry_items, orders, order_items, seq, auth, req>>

\* ---- adminLogin ----
\* jwt.sign(payload, secret, {expiresIn: '24h'})
ExpiresIn == 86400

\* Bun.password.hash / Bun.password.verify
PasswordHash(password) == [hash |-> password]
\* (mutant) any password is taken
PasswordVerifyAny(password, hash) == TRUE

PasswordVerify(password, hash) == hash = PasswordHash(password)

\* ---- verifyAdminToken: the admin row for the token, {} for null ----
\* what the body of the try block comes to: a returned value or an exception
Returned(adminUser) == [threw |-> FALSE, adminUser |-> adminUser]
Thrown == [threw |-> TRUE, adminUser |-> {}]

\* (mutant) a payload without exp counts as expired
ExpiredOrNoExp(payload) ==
  \/ ~Truthy(payload.exp)
  \/ payload.exp.type = "number" /\ now * 1000 >= payload.exp.num * 1000

\* payload.exp && Date.now() >= payload.exp * 1000; a string that is not a
\* number multiplies to NaN, which compares false
Expired(payload) ==
  /\ Truthy(payload.exp)
  /\ payload.exp.type = "number"
  /\ now * 1000 >= payload.exp.num * 1000

\* (mutant) the key is fixed when the module loads
SecretKeyFixed == "default-secret-key"

\* process.env['JWT_SECRET'] || 'default-secret-key', read at every call
SecretKey == JWT_SECRET

\* the try block: a token that is undefined, null or '' and a token without
\* three parts return null; parts that atob or JSON.parse reject throw
verifyAdminTokenTry(token) ==
  IF token.shape \in {"none", "empty"} THEN Returned({})
  ELSE IF token.shape = "parts" THEN Returned({})
  ELSE IF token.shape = "json" THEN Thrown
  ELSE LET payload == token.payload IN
    IF Expired(payload) THEN Returned({})
    ELSE IF token.signature # Sign(SecretKey, payload) THEN Returned({})
    ELSE LET userId == IF Truthy(payload.sub) THEN payload.sub ELSE payload.userId IN
      IF ~Truthy(userId) \/ userId.type # "number" THEN Returned({})
      ELSE Returned({a \in admin_users : a.id = userId.num})

\* (mutant) an exception of the try block reaches the caller
CatchRethrow(outcome) == outcome

\* the catch block: log and return null
CatchNull(outcome) == IF outcome.threw THEN Returned({}) ELSE outcome

verifyAdminTokenOutcome(token) == CatchNull(verifyAdminTokenTry(token))

verifyAdminToken(token) == verifyAdminTokenOutcome(token).adminUser

AdminLogin(username, password) ==
  /\ LET adminUsers == {a \in admin_users : a.username = username} IN
       IF adminUsers = {}
       THEN /\ last' = Response("adminLogin", "", 0, "null")
            /\ UNCHANGED tokens
       ELSE LET admin == CHOOSE a \in adminUsers : TRUE IN
            IF ~PasswordVerify(password, admin.password_hash)
            THEN /\ last' = Response("adminLogin", "", 0, "null")
                 /\ UNCHANGED tokens
            ELSE LET payload == Payload(Undefined, Undefined, Num(admin.id),
                                        Num(now + ExpiresIn))
                     token == Jwt(payload, Sign(JWT_SECRET, payload))
                 IN /\ Cardinality(tokens \cup {token}) <= MaxTokens
                    /\ tokens' = tokens \cup {token}
                    /\ last' = Response("adminLogin", "", admin.id, "token")
  /\ UNCHANGED <<db, admin_users, JWT_SECRET, now, req>>

\* the verifyAdminToken route
VerifyAdminToken(token) ==
  /\ last' = LET outcome == verifyAdminTokenOutcome(token) IN
             IF outcome.threw THEN AdminResponse("verifyAdminToken", token, 0, "throw")
             ELSE IF outcome.adminUser = {}
             THEN AdminResponse("verifyAdminToken", token, 0, "null")
             ELSE AdminResponse("verifyAdminToken", token,
                           (CHOOSE a \in outcome.adminUser : TRUE).id, "admin")
  /\ UNCHANGED <<db, auth, req>>

\* (mutant) a route that calls its handler without looking at the token
AuthorizedAlways(token) == TRUE

\* ---- the admin routes of appRouter: verifyAdminToken, then the handler ----
\* the route awaits verifyAdminToken and only then calls the handler; nothing
\* the handlers write is read by verifyAdminToken, so each route is one action
Authorized(token) == verifyAdminToken(token) # {}


Unauthorized(op, token) ==
  /\ ~Authorized(token)
  /\ last' = AdminResponse(op, token, 0, "unauthorized")
  /\ UNCHANGED <<db, auth, req>>

\* createJewelryItem: insert the row
CreateJewelryItem(token, price, stock) ==
  \/ Unauthorized("createJewelryItem", token)
  \/ /\ Authorized(token)
     /\ seq.jewelry_items <= MaxItemId
     /\ jewelry_items' = jewelry_items \cup {[id |-> seq.jewelry_items,
                                              price |-> price,
                                              stock_quantity |-> stock]}
     /\ seq' = [seq EXCEPT !.jewelry_items = @ + 1]
     /\ last' = AdminResponse("createJewelryItem", token, seq.jewelry_items, "item")
     /\ UNCHANGED <<cart_items, orders, order_items, auth, req>>

\* updateJewelryItem: input maps the fields that are given ("price",
\* "stock_quantity") to their values; without fields the row is only read
UpdateJewelryItem(token, id, input) ==
  \/ Unauthorized("updateJewelryItem", token)
  \/ /\ Authorized(token)
     /\ jewelry_items' =
          {IF j.id = id
           THEN [id |-> j.id,
                 price |-> IF "price" \in DOMAIN input
                           THEN input["price"] ELSE j.price,
                 stock_quantity |-> IF "stock_quantity" \in DOMAIN input
                                    THEN input["stock_quantity"] ELSE j.stock_quantity]
           ELSE j : j \in jewelry_items}
     /\ last' = AdminResponse("updateJewelryItem", token, id,
                         IF \E j \in jewelry_items : j.id = id THEN "item" ELSE "null")
     /\ UNCHANGED <<cart_items, orders, order_items, seq, auth, req>>

\* deleteJewelryItem: delete the row
DeleteJewelryItem(token, id) ==
  \/ Unauthorized("deleteJewelryItem", token)
  \/ /\ Authorized(token)
     /\ jewelry_items' = {j \in jewelry_items : j.id # id}
     /\ last' = AdminResponse("deleteJewelryItem", token, id,
                         IF \E j \in jewelry_items : j.id = id THEN "true" ELSE "false")
     /\ UNCHANGED <<cart_items, orders, order_items, seq, auth, req>>

\* (mutant) a delivered or cancelled order keeps its status
UpdateOrderStatusFinal(token, id, status) ==
  \/ Unauthorized("updateOrderStatus", token)
  \/ /\ Authorized(token)
     /\ orders' = {IF o.id = id /\ o.status \notin {"delivered", "cancelled"}
                   THEN [o EXCEPT !.status = status] ELSE o : o \in orders}
     /\ last' = AdminResponse("updateOrderStatus", token, id,
                         IF \E o \in orders : o.id = id THEN "order" ELSE "null")
     /\ UNCHANGED <<jewelry_items, cart_items, order_items, seq, auth, req>>

\* updateOrderStatus: set the status of the order row
UpdateOrderStatus(token, id, status) ==
  \/ Unauthorized("updateOrderStatus", token)
  \/ /\ Authorized(token)
     /\ orders' = {IF o.id = id THEN [o EXCEPT !.status = status] ELSE o : o \in orders}
     /\ last' = AdminResponse("updateOrderStatus", token, id,
                         IF \E o \in orders : o.id = id THEN "order" ELSE "null")
     /\ UNCHANGED <<jewelry_items, cart_items, order_items, seq, auth, req>>

\* ---- the clock ----
MaxTicks == 2
TickLength == ExpiresIn \div 2

Tick ==
  /\ now < MaxTicks * TickLength
  /\ now' = now + TickLength
  /\ UNCHANGED <<db, admin_users, JWT_SECRET, tokens, req, last>>

\* ---- the requests clients send ----
ItemIds == 1..MaxItemId
CartIds == 1..MaxCartId
OrderIds == 1..MaxOrderId
Stocks == {0, MaxStock}

\* tokens built as the tests build them: {sub, exp} signed with a chosen secret
TestPayload == Payload(Num(1), Undefined, Undefined, Num(ExpiresIn))
TestTokens ==
  {RawToken("empty"),
   Jwt(TestPayload, Sign("default-secret-key", TestPayload)),
   Jwt(TestPayload, Sign("wrong-secret", TestPayload))}

Usernames == {"testadmin", "TESTADMIN"}
Passwords == {"testpassword123", "wrongpassword"}

UpdateInputs ==
  {[price |-> pr] : pr \in Prices}
  \cup {[stock_quantity |-> st] : st \in Stocks}
  \cup {[price |-> pr, stock_quantity |-> st] : pr \in Prices, st \in Stocks}
  \cup {[x \in {} |-> 0]}

\* the tables after createDB and the provisioning of one admin
Init ==
  /\ jewelry_items = {}
  /\ cart_items = {}
  /\ orders = {}
  /\ order_items = {}
  /\ seq = [jewelry_items |-> 1, cart_items |-> 1, orders |-> 1, order_items |-> 1]
  /\ admin_users = {[id |-> 1, username |-> "testadmin",
                     password_hash |-> PasswordHash("testpassword123")]}
  /\ JWT_SECRET = "default-secret-key"
  /\ now = 0
  /\ tokens = {}
  /\ req = [p \in Procs |-> Idle]
  /\ last = Response("none", "", 0, "none")

\* a shop with two items on sale and no carts yet
InitShop ==
  /\ jewelry_items = {[id |-> 1, price |-> 1999, stock_quantity |-> MaxStock],
                      [id |-> 2, price |-> 599, stock_quantity |-> 1]}
  /\ cart_items = {}
  /\ orders = {}
  /\ order_items = {}
  /\ seq = [jewelry_items |-> 3, cart_items |-> 1, orders |-> 1, order_items |-> 1]
  /\ admin_users = {[id |-> 1, username |-> "testadmin",
                     password_hash |-> PasswordHash("testpassword123")]}
  /\ JWT_SECRET = "default-secret-key"
  /\ now = 0
  /\ tokens = {}
  /\ req = [p \in Procs |-> Idle]
  /\ last = Response("none", "", 0, "none")

\* a shop with one item on sale and one order placed
InitAdmin ==
  /\ jewelry_items = {[id |-> 1, price |-> 1999, stock_quantity |-> MaxStock]}
  /\ cart_items = {}
  /\ orders = {[id |-> 1, session_id |-> "s1", total_amount |-> 1999, status |-> "pending"]}
  /\ order_items = {[id |-> 1, order_id |-> 1, jewelry_item_id |-> 1, quantity |-> 1,
                     price_at_time |-> 1999]}
  /\ seq = [jewelry_items |-> 2, cart_items |-> 1, orders |-> 2, order_items |-> 2]
  /\ admin_users = {[id |-> 1, username |-> "testadmin",
                     password_hash |-> PasswordHash("testpassword123")]}
  /\ JWT_SECRET = "default-secret-key"
  /\ now = 0
  /\ tokens = {}
  /\ req = [p \in Procs |-> Idle]
  /\ last = Response("none", "", 0, "none")

NextOrder ==
  \/ \E p \in Procs, s \in Sessions : CreateOrderLoad(p, s)
  \/ \E p \in Procs, k \in 0..(2 * MaxCartId + 2) : CreateOrderTransaction(p, k)

NextCart ==
  \/ \E p \in Procs, s \in Sessions, i \in ItemIds, q \in Quantities :
        AddToCartItem(p, s, i, q)
  \/ \E p \in Procs : AddToCartExisting(p)
  \/ \E p \in Procs : AddToCartUpdate(p)
  \/ \E p \in Procs : AddToCartInsert(p)
  \/ \E id \in CartIds, q \in Quantities : UpdateCartItem(id, q)
  \/ \E id \in CartIds : RemoveFromCart(id)

NextAdmin ==
  \/ \E t \in tokens \cup TestTokens, pr \in Prices, st \in Stocks :
        CreateJewelryItem(t, pr, st)
  \/ \E t \in tokens \cup TestTokens, id \in ItemIds, input \in UpdateInputs :
        UpdateJewelryItem(t, id, input)
  \/ \E t \in tokens \cup TestTokens, id \in ItemIds : DeleteJewelryItem(t, id)
  \/ \E t \in tokens \cup TestTokens, id \in OrderIds, st \in OrderStatus :
        UpdateOrderStatus(t, id, st)

NextAuth ==
  \/ \E u \in Usernames, pw \in Passwords : AdminLogin(u, pw)
  \/ \E t \in tokens \cup TestTokens : VerifyAdminToken(t)
  \/ Tick

Next == NextOrder \/ NextCart \/ NextAdmin \/ NextAuth

Spec == Init /\ [][Next]_vars

\* guests shopping and ordering concurrently, the catalog left alone
SpecOrder == InitShop /\ [][NextOrder \/ NextCart]_vars

\* the admin routes and the token handlers, no guest requests
SpecAdmin == InitAdmin /\ [][NextAdmin \/ NextAuth]_vars

\* the token handlers alone
SpecAuth == Init /\ [][NextAuth]_vars

\* ---- the token handlers against every kind of token and a changing deployment ----
Secrets == {"default-secret-key", "wrong-secret"}

\* payloads as the tests build them: a subject that exists, one that does not,
\* userId in place of sub, a string for a subject, no exp, exp 0, a short exp,
\* the payload adminLogin signs, and a sub of 0 next to a userId
NoSuchUser == 2
TokenPayloads ==
  {TestPayload,
   Payload(Num(NoSuchUser), Undefined, Undefined, Num(ExpiresIn)),
   Payload(Undefined, Num(1), Undefined, Num(ExpiresIn)),
   Payload(Str, Undefined, Undefined, Num(ExpiresIn)),
   Payload(Num(1), Undefined, Undefined, Undefined),
   Payload(Num(1), Undefined, Undefined, Num(0)),
   Payload(Num(1), Undefined, Undefined, Num(TickLength)),
   Payload(Undefined, Undefined, Num(1), Num(ExpiresIn)),
   Payload(Num(0), Num(1), Undefined, Num(ExpiresIn))}

\* a payload edited after signing keeps the signature of the original
TamperedTokens ==
  {Jwt(TestPayload, Sign(k, Payload(Num(NoSuchUser), Undefined, Undefined, Num(ExpiresIn)))) :
     k \in Secrets}

ForgedTokens ==
  {RawToken(shape) : shape \in {"none", "empty", "parts", "json"}}
  \cup {Jwt(payload, Sign(k, payload)) : payload \in TokenPayloads, k \in Secrets}
  \cup TamperedTokens

\* the operator restarts the server with another JWT_SECRET
RotateSecret(secret) ==
  /\ secret # JWT_SECRET
  /\ JWT_SECRET' = secret
  /\ UNCHANGED <<db, admin_users, now, tokens, req, last>>

\* the row of an admin is deleted from admin_users
DeleteAdminUser(id) ==
  /\ \E a \in admin_users : a.id = id
  /\ admin_users' = {a \in admin_users : a.id # id}
  /\ UNCHANGED <<db, JWT_SECRET, now, tokens, req, last>>

NextToken ==
  \/ \E u \in Usernames, pw \in Passwords : AdminLogin(u, pw)
  \/ \E t \in tokens \cup ForgedTokens : VerifyAdminToken(t)
  \/ Tick
  \/ \E k \in Secrets : RotateSecret(k)
  \/ \E a \in admin_users : DeleteAdminUser(a.id)

SpecToken == Init /\ [][NextToken]_vars

\* ---- what the claims speak of, read off the tables ----
LinesOf(sessionId) == {c \in cart_items : c.session_id = sessionId}

\* the quantity of an item on the lines of an order
Ordered(orderId, itemId) ==
  LET lines == {oi \in order_items :
                  oi.order_id = orderId /\ oi.jewelry_item_id = itemId}
  IN SumOver([oi \in lines |-> oi.quantity], lines)

\* the stock an item had before the earlier of two orders was placed, when
\* stock is only ever changed by orders
StockBefore(o1, o2, j) ==
  LET first == IF o1.id <= o2.id THEN o1.id ELSE o2.id
      lines == {oi \in order_items :
                  oi.order_id >= first /\ oi.jewelry_item_id = j.id}
  IN j.stock_quantity + SumOver([oi \in lines |-> oi.quantity], lines)

\* C1: two orders placed from different sessions on the same item never take,
\* together, more of the item than it had in stock: when the combined quantity
\* exceeds the stock, only one of the two calls returns an order.
C1_NotBothSucceed ==
  \A o1 \in orders, o2 \in orders, j \in jewelry_items :
     (/\ o1.session_id # o2.session_id
      /\ Ordered(o1.id, j.id) > 0
      /\ Ordered(o2.id, j.id) > 0)
     => Ordered(o1.id, j.id) + Ordered(o2.id, j.id) <= StockBefore(o1, o2, j)

\* C2: in every reachable state every jewelry item's stock_quantity is >= 0.
C2_StockNonNegative ==
  \A j \in jewelry_items : j.stock_quantity >= 0
\* ---- the steps of createOrder, told apart by what they change ----
\* the call for sessionId returns null
RejectedStep(sessionId) ==
  /\ last' # last
  /\ last' = Response("createOrder", sessionId, 0, "null")

\* the call in slot p passes the checks and goes on to the transaction
LoadedStep(p) == req[p].pc = "idle" /\ req'[p].pc = "transaction"

\* the transaction of the call in slot p commits and the call returns the order
CommitStep(p) ==
  /\ req[p].pc = "transaction"
  /\ req'[p].pc = "idle"
  /\ last'.op = "createOrder"
  /\ last'.result = "order"

\* the transaction of the call in slot p throws
ThrowStep(p) ==
  /\ req[p].pc = "transaction"
  /\ req'[p].pc = "idle"
  /\ last'.result = "throw"

PriceOf(itemId) == (CHOOSE j \in jewelry_items : j.id = itemId).price

\* every line of the session's cart is of an item on sale with enough stock
InStock(c) ==
  \E j \in jewelry_items : j.id = c.jewelry_item_id /\ c.quantity <= j.stock_quantity

ValidCart(sessionId) ==
  /\ LinesOf(sessionId) # {}
  /\ \A c \in LinesOf(sessionId) : InStock(c)

CartTotal(sessionId) ==
  SumOver([c \in LinesOf(sessionId) |-> PriceOf(c.jewelry_item_id) * c.quantity],
          LinesOf(sessionId))

\* C3: a call on a cart with at least one line, each within stock, is not
\* rejected; it computes the total as the sum of catalog price x quantity over
\* the cart lines read by the call, and when its transaction commits there is
\* a new pending order with that total, one order line per cart line read
\* (same item, quantity and price), and the session's cart is empty.
C3_PlaceOrderSucceeds ==
  [][/\ \A s \in Sessions : RejectedStep(s) => ~ValidCart(s)
     /\ \A p \in Procs : (LoadedStep(p) /\ ValidCart(req'[p].session_id)) =>
          LET r == req'[p] IN
          /\ r.totalAmount = CartTotal(r.session_id)
          /\ Len(r.cartItems) = Cardinality(LinesOf(r.session_id))
          /\ \A c \in LinesOf(r.session_id) :
               \E i \in 1..Len(r.cartItems) :
                  /\ r.cartItems[i].id = c.id
                  /\ r.cartItems[i].quantity = c.quantity
                  /\ r.cartItems[i].jewelryItemId = c.jewelry_item_id
                  /\ r.cartItems[i].jewelryItemPrice = PriceOf(c.jewelry_item_id)
     /\ \A p \in Procs : CommitStep(p) =>
          LET r == req[p]
              lines == order_items' \ order_items
          IN /\ orders' = orders \cup {[id |-> last'.id,
                                        session_id |-> r.session_id,
                                        total_amount |-> r.totalAmount,
                                        status |-> "pending"]}
             /\ \A o \in orders : o.id # last'.id
             /\ order_items \subseteq order_items'
             /\ Cardinality(lines) = Len(r.cartItems)
             /\ \A oi \in lines : oi.order_id = last'.id
             /\ \A i \in 1..Len(r.cartItems) :
                  Cardinality({oi \in lines :
                     /\ oi.jewelry_item_id = r.cartItems[i].jewelryItemId
                     /\ oi.quantity = r.cartItems[i].quantity
                     /\ oi.price_at_time = r.cartItems[i].jewelryItemPrice})
                  = Cardinality({k \in 1..Len(r.cartItems) :
                     /\ r.cartItems[k].jewelryItemId = r.cartItems[i].jewelryItemId
                     /\ r.cartItems[k].quantity = r.cartItems[i].quantity
                     /\ r.cartItems[k].jewelryItemPrice = r.cartItems[i].jewelryItemPrice})
             /\ \A c \in cart_items' : c.session_id # r.session_id
    ]_vars

\* C3 witness: the order of 2 x 1999 and 1 x 599 has been returned: total 4597,
\* two order lines, the session's cart empty.
C3_Witness ==
  /\ last.op = "createOrder"
  /\ last.result = "order"
  /\ \E o \in orders :
       /\ o.id = last.id
       /\ o.total_amount = 4597
       /\ o.status = "pending"
       /\ Cardinality({oi \in order_items : oi.order_id = o.id}) = 2
  /\ LinesOf(last.session_id) = {}

\* a line of the session's cart asks for more than the item's stock
HasInsufficientLine(sessionId) ==
  \E c \in LinesOf(sessionId) :
     \E j \in jewelry_items : j.id = c.jewelry_item_id /\ c.quantity > j.stock_quantity

\* C4: a call on a cart with a line above the item's stock never goes on to
\* the transaction; it returns null, and the step that returns null leaves
\* the cart, the orders, the order lines and every stock as they were.
C4_InsufficientStockRejected ==
  [][/\ \A p \in Procs : LoadedStep(p) => ~HasInsufficientLine(req'[p].session_id)
     /\ \A s \in Sessions : (RejectedStep(s) /\ HasInsufficientLine(s)) =>
          /\ UNCHANGED <<jewelry_items, cart_items, orders, order_items, seq>>
          /\ UNCHANGED req
    ]_vars

\* C4 witness: a call was rejected on a cart that has one line within stock
\* and one above it; nothing was ordered.
C4_Witness ==
  /\ last.op = "createOrder"
  /\ last.result = "null"
  /\ HasInsufficientLine(last.session_id)
  /\ \E c \in LinesOf(last.session_id) : InStock(c)
  /\ orders = {}
  /\ order_items = {}

\* C5: a call for a session without cart lines never goes on to the
\* transaction; it returns null and changes no table.
C5_EmptyCartRejected ==
  [][/\ \A p \in Procs : LoadedStep(p) => LinesOf(req'[p].session_id) # {}
     /\ \A s \in Sessions : (RejectedStep(s) /\ LinesOf(s) = {}) =>
          /\ UNCHANGED <<jewelry_items, cart_items, orders, order_items, seq>>
          /\ UNCHANGED req
    ]_vars

\* C5 witness: a call was rejected for a session without cart lines while the
\* other session has a cart.
C5_Witness ==
  /\ last.op = "createOrder"
  /\ last.result = "null"
  /\ LinesOf(last.session_id) = {}
  /\ cart_items # {}

\* C6: when a statement of the transaction throws, the call throws and the
\* tables are as they were before the transaction: no order, no order line,
\* no stock decrement, no cart deletion.
C6_TransactionRollsBack ==
  [][\A p \in Procs : ThrowStep(p) =>
        /\ last'.op = "createOrder"
        /\ last'.session_id = req[p].session_id
        /\ UNCHANGED <<jewelry_items, cart_items, orders, order_items, seq>>
    ]_vars

\* C6 witness: a call on a two-line cart threw; the cart is still there and
\* nothing was ordered.
C6_Witness ==
  /\ last.op = "createOrder"
  /\ last.result = "throw"
  /\ Cardinality(LinesOf(last.session_id)) = 2
  /\ orders = {}
  /\ order_items = {}

\* the quantity of an item over the cart lines a call has read
Demand(cartItems, itemId) ==
  LET idx == {i \in 1..Len(cartItems) : cartItems[i].jewelryItemId = itemId}
  IN SumOver([i \in idx |-> cartItems[i].quantity], idx)

\* C7: when the transaction commits, the stock of every item goes down by
\* exactly the quantity ordered of it; items not ordered keep their stock.
C7_StockDecrement ==
  [][\A p \in Procs : CommitStep(p) =>
        /\ Cardinality(jewelry_items') = Cardinality(jewelry_items)
        /\ \A j \in jewelry_items :
             \E j2 \in jewelry_items' :
                /\ j2.id = j.id
                /\ j2.price = j.price
                /\ j2.stock_quantity =
                     j.stock_quantity - Demand(req[p].cartItems, j.id)
    ]_vars

\* C7 witness: an order of 2 of item 1 has been returned; item 1 has two less
\* than it started with and item 2 still has its one.
C7_Witness ==
  /\ last.op = "createOrder"
  /\ last.result = "order"
  /\ Ordered(last.id, 1) = 2
  /\ Ordered(last.id, 2) = 0
  /\ \E j \in jewelry_items : j.id = 1 /\ j.stock_quantity = MaxStock - 2
  /\ \E j \in jewelry_items : j.id = 2 /\ j.stock_quantity = 1

\* C8: right after a call returned an order for a session, a second call for
\* that session does not go on to a transaction: it returns null and changes
\* no table, so the cart is ordered once and stock is decremented once.
C8_SecondCallRejected ==
  [][(last.op = "createOrder" /\ last.result = "order") =>
        /\ \A p \in Procs : LoadedStep(p) => req'[p].session_id # last.session_id
        /\ RejectedStep(last.session_id) =>
             UNCHANGED <<jewelry_items, cart_items, orders, order_items, seq>>
    ]_vars

\* C8 witness: a call returned null for a session that has exactly one order
\* and an empty cart.
C8_Witness ==
  /\ last.op = "createOrder"
  /\ last.result = "null"
  /\ Cardinality({o \in orders : o.session_id = last.session_id}) = 1
  /\ LinesOf(last.session_id) = {}
\* C9: a token issued by adminLogin, verified before its expiry under the
\* same secret, makes verifyAdminToken return the admin it was issued to.
C9_LoginVerifyRoundTrip ==
  \A t \in tokens :
     (t.payload.exp.type = "number" /\ now < t.payload.exp.num) =>
        /\ verifyAdminToken(t) # {}
        /\ verifyAdminToken(t) = {a \in admin_users : a.id = t.payload.id.num}

AdminOps ==
  {"createJewelryItem", "updateJewelryItem", "deleteJewelryItem", "updateOrderStatus"}

\* C10: a request to an admin route whose token verifyAdminToken turns down
\* gets the Unauthorized error and changes no table.
C10_AdminRoutesGuarded ==
  [][(/\ last'.op \in AdminOps
      /\ \/ last' # last
         \/ <<jewelry_items, cart_items, orders, order_items, seq>>' #
              <<jewelry_items, cart_items, orders, order_items, seq>>
      /\ verifyAdminToken(last'.token) = {})
     => /\ last'.result = "unauthorized"
        /\ UNCHANGED <<jewelry_items, cart_items, orders, order_items, seq>>
    ]_vars

\* C10 witness: an admin route turned down a well-formed token that does not
\* verify; the item and the order of the initial state are as they were.
C10_Witness ==
  /\ last.op \in AdminOps
  /\ last.result = "unauthorized"
  /\ last.token.shape = "jwt"
  /\ verifyAdminToken(last.token) = {}
  /\ jewelry_items = {[id |-> 1, price |-> 1999, stock_quantity |-> MaxStock]}
  /\ \A o \in orders : o.status = "pending"

\* ---- verifyAdminToken and adminLogin ----
\* a step in which the verifyAdminToken route answered
VerifyStep == last' # last /\ last'.op = "verifyAdminToken"

\* the subject a token names: sub, or userId when there is no sub
Subject(payload) == IF payload.sub # Undefined THEN payload.sub ELSE payload.userId

\* the token carries an expiry and the clock has reached it
PastExpiry(payload) == payload.exp.type = "number" /\ payload.exp.num <= now

\* C11: verify answers with a principal only for a token whose signature is
\* valid under the current secret, that is not expired and whose subject is
\* the id of an existing admin, and then the principal is that admin
C11_VerifyOnlyValid ==
  [][VerifyStep /\ last'.result = "admin" =>
       LET t == last'.token IN
         /\ t.shape = "jwt"
         /\ t.signature = Sign(JWT_SECRET, t.payload)
         /\ ~PastExpiry(t.payload)
         /\ Subject(t.payload).type = "number"
         /\ \E a \in admin_users : a.id = Subject(t.payload).num
         /\ last'.id = Subject(t.payload).num]_vars

\* C12: verify answers null for every token that carries an expiry that the
\* clock has reached, the boundary included, whatever its signature and subject
C12_ExpiredIsNull ==
  [][VerifyStep /\ last'.token.shape = "jwt" /\ PastExpiry(last'.token.payload)
       => last'.result = "null"]_vars

\* C13: verify answers null, and throws nothing, for every malformed token
C13_MalformedIsNull ==
  [][VerifyStep /\ last'.token.shape \in {"none", "empty", "parts", "json"}
       => last'.result = "null"]_vars

C13_Witness ==
  /\ last.op = "verifyAdminToken"
  /\ last.token.shape = "json"
  /\ last.result = "null"

\* the login cannot succeed: no admin has the username, or the password is
\* not the one the admin was provisioned with
LoginFails(username, password) ==
  \/ ~\E a \in admin_users : a.username = username
  \/ password # "testpassword123"

\* C14: login answers null both for an unknown username (compared case
\* sensitively) and for a wrong password, with the same response, no token
\* issued and no state changed
C14_LoginFailuresAlike ==
  [][\A u \in Usernames, pw \in Passwords :
       AdminLogin(u, pw) /\ LoginFails(u, pw) =>
         /\ last' = Response("adminLogin", "", 0, "null")
         /\ UNCHANGED <<db, auth>>]_vars

C14_Witness ==
  /\ last = Response("adminLogin", "", 0, "null")
  /\ \E a \in admin_users : a.username = "testadmin"
  /\ tokens = {}

\* the tokens clients may hold: the ones login issued and the ones built by hand
Outstanding == tokens \cup ForgedTokens

\* the admin a token names is deleted in this step
PrincipalDeleted(t) ==
  \E a \in verifyAdminToken(t) : ~\E b \in admin_users' : b.id = a.id

\* the clock reaches the token's expiry in this step
ExpiryReached(t) ==
  /\ t.payload.exp.type = "number"
  /\ now < t.payload.exp.num
  /\ now' >= t.payload.exp.num

\* C17: a token that verifies stops verifying as soon as the secret is
\* changed or its principal is deleted; besides its expiry nothing else turns
\* it invalid; a change of secret invalidates every outstanding token
C17_OnlyRotationDeletionExpiry ==
  [][\A t \in Outstanding :
       verifyAdminToken(t) # {} =>
         /\ JWT_SECRET' # JWT_SECRET => verifyAdminToken(t)' = {}
         /\ PrincipalDeleted(t) => verifyAdminToken(t)' = {}
         /\ verifyAdminToken(t)' = {} =>
              \/ JWT_SECRET' # JWT_SECRET
              \/ PrincipalDeleted(t)
              \/ ExpiryReached(t)]_vars

\* a token that verified a moment ago no longer does, the secret having changed
C17_Witness ==
  /\ last.op = "verifyAdminToken"
  /\ last.result = "admin"
  /\ JWT_SECRET # "default-secret-key"
  /\ last.token.signature = Sign("default-secret-key", last.token.payload)
  /\ verifyAdminToken(last.token) = {}

\* ---- the cart ----
\* C16: in every state a session has at most one cart line per jewelry item
C16_OneLinePerItem ==
  \A c1, c2 \in cart_items :
    c1.session_id = c2.session_id /\ c1.jewelry_item_id = c2.jewelry_item_id
      => c1.id = c2.id

\* ---- orders placed while the admin edits the catalog ----
\* a shop with two items on sale and a line in the cart of each session
InitCarts ==
  /\ jewelry_items = {[id |-> 1, price |-> 1999, stock_quantity |-> MaxStock],
                      [id |-> 2, price |-> 599, stock_quantity |-> MaxStock]}
  /\ cart_items = {[id |-> 1, session_id |-> "s1", jewelry_item_id |-> 1, quantity |-> 2],
                   [id |-> 2, session_id |-> "s2", jewelry_item_id |-> 2, quantity |-> 1]}
  /\ orders = {}
  /\ order_items = {}
  /\ seq = [jewelry_items |-> 3, cart_items |-> 3, orders |-> 1, order_items |-> 1]
  /\ admin_users = {[id |-> 1, username |-> "testadmin",
                     password_hash |-> PasswordHash("testpassword123")]}
  /\ JWT_SECRET = "default-secret-key"
  /\ now = 0
  /\ tokens = {}
  /\ req = [p \in Procs |-> Idle]
  /\ last = Response("none", "", 0, "none")

NextPrice ==
  \E t \in TestTokens, id \in ItemIds, input \in UpdateInputs :
    UpdateJewelryItem(t, id, input)

SpecPrice == InitCarts /\ [][NextOrder \/ NextPrice]_vars

\* C15: the price_at_time of an order line is the price the call read when
\* it loaded the cart, and no later step, a price edit included, changes an
\* existing order line or the total_amount of an existing order
C15_PriceAtTimeFrozen ==
  [][/\ \A p \in Procs : CommitStep(p) =>
          \A l \in order_items' \ order_items :
            \E i \in 1..Len(req[p].cartItems) :
              /\ req[p].cartItems[i].jewelryItemId = l.jewelry_item_id
              /\ req[p].cartItems[i].jewelryItemPrice = l.price_at_time
     /\ \A l \in order_items : l \in order_items'
     /\ \A o \in orders :
          \E o2 \in orders' : o2.id = o.id /\ o2.total_amount = o.total_amount]_vars

\* an order line whose item has since been given another price, the order
\* having been loaded before the edit
C15_Witness ==
  /\ last.op = "createOrder"
  /\ last.result = "order"
  /\ \E l \in order_items : \E j \in jewelry_items :
       /\ j.id = l.jewelry_item_id
       /\ l.order_id = last.id
       /\ j.price # l.price_at_time

\* ---- two orders at once ----
\* the jewelry items on the cart lines a call loaded
ItemsOf(p) == {req[p].cartItems[i].jewelryItemId : i \in 1..Len(req[p].cartItems)}

\* the calls in slots p and q are both between load and transaction, for
\* different sessions and with no jewelry item in common
DisjointOrders(p, q) ==
  /\ p # q
  /\ req[p].pc = "transaction"
  /\ req[q].pc = "transaction"
  /\ req[p].session_id # req[q].session_id
  /\ ItemsOf(p) \cap ItemsOf(q) = {}

\* what the call in slot p is about to produce if it runs now: the order, its
\* lines and the stock it leaves on its items (ids apart)
EffectsAlone(p) ==
  LET d == Transaction(Tables, req[p], 0) IN
    [order |-> {<<o.session_id, o.total_amount, o.status>> : o \in d.orders \ orders},
     lines |-> {<<l.jewelry_item_id, l.quantity, l.price_at_time>> :
                  l \in d.order_items \ order_items},
     stock |-> {<<j.id, j.stock_quantity>> :
                  j \in {x \in d.jewelry_items : x.id \in ItemsOf(p)}}]

\* C18: of two calls for different sessions and disjoint items neither waits
\* for the other, and the end of one (commit or throw) leaves the other
\* in place with the outcome and effects it would have had alone
C18_DisjointOrdersIndependent ==
  [][\A p, q \in Procs :
       DisjointOrders(p, q) =>
         /\ ENABLED CreateOrderTransaction(p, 0)
         /\ req'[q].pc = "idle" =>
              /\ req'[p] = req[p]
              /\ LinesOf(req[p].session_id)' = LinesOf(req[p].session_id)
              /\ EffectsAlone(p)' = EffectsAlone(p)]_vars

\* one of two overlapping calls with disjoint carts has committed, the other
\* is still before its transaction
C18_Witness ==
  /\ last.op = "createOrder"
  /\ last.result = "order"
  /\ \E p \in Procs :
       /\ req[p].pc = "transaction"
       /\ req[p].session_id # last.session_id
       /\ ItemsOf(p) # {}
       /\ \A l \in order_items : l.order_id = last.id => l.jewelry_item_id \notin ItemsOf(p)
       /\ \E l \in order_items : l.order_id = last.id
       /\ \E q \in Procs : q # p /\ req[q].pc = "idle"

\* ---- the createOrder route: input validation, then the handler ----
\* z.string().email()
IsEmail(text) == text \in {"john@example.com"}

\* createOrderInputSchema: session_id is any string, customer_name and
\* shipping_address have min(1), customer_email is an email
createOrderInputSchema(input) ==
  /\ input.customer_name # ""
  /\ IsEmail(input.customer_email)
  /\ input.shipping_address # ""

OrderInputs ==
  [session_id : Sessions \cup {""},
   customer_name : {"John Doe", ""},
   customer_email : {"john@example.com", "not-an-email"},
   shipping_address : {"123 Main St", ""}]

\* the input is parsed by the schema; a parse error is the route's answer,
\* otherwise the handler runs
CreateOrderRoute(p, input) ==
  IF createOrderInputSchema(input)
  THEN CreateOrderLoad(p, input.session_id)
  ELSE /\ req[p].pc = "idle"
       /\ last' = Response("createOrder", input.session_id, 0, "validation")
       /\ UNCHANGED <<db, auth, req>>

NextRoute ==
  \/ \E p \in Procs, input \in OrderInputs : CreateOrderRoute(p, input)
  \/ \E p \in Procs, k \in 0..(2 * MaxCartId + 2) : CreateOrderTransaction(p, k)

SpecRoute == InitCarts /\ [][NextRoute]_vars

\* the input breaks a rule of the order form
Malformed(input) ==
  \/ input.session_id = ""
  \/ input.customer_name = ""
  \/ input.customer_email = "not-an-email"
  \/ input.shipping_address = ""

\* C19: a createOrder request with an empty session id, an empty customer
\* name, a malformed email or an empty shipping address is answered with a
\* validation error and the handler does not start
C19_MalformedRejected ==
  [][\A p \in Procs, input \in OrderInputs :
       CreateOrderRoute(p, input) /\ Malformed(input) =>
         /\ last'.result = "validation"
         /\ UNCHANGED <<db, req>>]_vars

\* ---- getOrder: the order row, then its lines; null when there is no row ----
\* (mutant) a missing order is an exception
GetOrderThrows(id) ==
  /\ last' = Response("getOrder", "", id,
                      IF \E o \in orders : o.id = id THEN "order" ELSE "throw")
  /\ UNCHANGED <<db, auth, req>>

GetOrder(id) ==
  /\ last' = Response("getOrder", "", id,
                      IF \E o \in orders : o.id = id THEN "order" ELSE "null")
  /\ UNCHANGED <<db, auth, req>>

\* a shop where both sessions hold two of the same item and three are left
InitRivals ==
  /\ jewelry_items = {[id |-> 1, price |-> 1999, stock_quantity |-> MaxStock]}
  /\ cart_items = {[id |-> 1, session_id |-> "s1", jewelry_item_id |-> 1, quantity |-> MaxQty],
                   [id |-> 2, session_id |-> "s2", jewelry_item_id |-> 1, quantity |-> MaxQty]}
  /\ orders = {}
  /\ order_items = {}
  /\ seq = [jewelry_items |-> 2, cart_items |-> 3, orders |-> 1, order_items |-> 1]
  /\ admin_users = {[id |-> 1, username |-> "testadmin",
                     password_hash |-> PasswordHash("testpassword123")]}
  /\ JWT_SECRET = "default-secret-key"
  /\ now = 0
  /\ tokens = {}
  /\ req = [p \in Procs |-> Idle]
  /\ last = Response("none", "", 0, "none")

NextOutcome ==
  \/ \E id \in CartIds, q \in Quantities : UpdateCartItem(id, q)
  \/ \E id \in OrderIds : GetOrder(id)
  \/ \E t \in TestTokens, id \in OrderIds, st \in OrderStatus : UpdateOrderStatus(t, id, st)

SpecOutcome == InitRivals /\ [][NextOrder \/ NextOutcome]_vars

\* C20: an empty cart and a line above stock (createOrder), a cart line that
\* is not there (updateCartItem) and an order that is not there (getOrder,
\* updateOrderStatus) are each answered with null, not an exception, and
\* leave the tables as they were
C20_RejectionsReturnNull ==
  [][/\ last'.op = "createOrder" =>
          \A p \in Procs, s \in Sessions :
            (LinesOf(s) = {} \/ HasInsufficientLine(s)) /\ CreateOrderLoad(p, s) =>
              last'.result = "null" /\ UNCHANGED db
     /\ last'.op = "updateCartItem" =>
          \A id \in CartIds, q \in Quantities :
            (~\E c \in cart_items : c.id = id) /\ UpdateCartItem(id, q) =>
              last'.result = "null" /\ UNCHANGED db
     /\ last'.op = "getOrder" =>
          \A id \in OrderIds :
            (~\E o \in orders : o.id = id) /\ GetOrder(id) =>
              last'.result = "null" /\ UNCHANGED db
     /\ last'.op = "updateOrderStatus" =>
          \A t \in TestTokens, id \in OrderIds, st \in OrderStatus :
            (~\E o \in orders : o.id = id) /\ Authorized(t) /\ UpdateOrderStatus(t, id, st) =>
              last'.result = "null" /\ UNCHANGED db]_vars

\* getOrder has just answered null for an order that is not there, in a shop
\* where an order was refused for stock and a cart line is gone
C20_Witness ==
  /\ last.op = "getOrder"
  /\ last.result = "null"
  /\ ~\E o \in orders : o.id = last.id
  /\ \E o \in orders : o.session_id = "s1"
  /\ \E c \in cart_items : c.session_id = "s2" /\ HasInsufficientLine("s2")

\* ---- verifyAdminToken: expiry and subject of the payload ----
\* the token is a JWT signed with the current secret
SignedNow(t) == t.shape = "jwt" /\ t.signature = Sign(JWT_SECRET, t.payload)

\* C21: a correctly signed token without an exp field whose subject is an
\* existing admin is accepted whatever the clock says
C21_NoExpNeverExpires ==
  [][VerifyStep /\ SignedNow(last'.token)
       /\ last'.token.payload.exp = Undefined
       /\ Subject(last'.token.payload).type = "number"
       /\ (\E a \in admin_users : a.id = Subject(last'.token.payload).num)
       => /\ last'.result = "admin"
          /\ last'.id = Subject(last'.token.payload).num]_vars

\* the token without exp is accepted when the clock has run to its end
C21_Witness ==
  /\ last.op = "verifyAdminToken"
  /\ last.result = "admin"
  /\ last.token.payload.exp = Undefined
  /\ now = MaxTicks * TickLength

\* C22: for a correctly signed, unexpired token the principal id is sub, or
\* userId when there is no sub; the token is rejected when neither is there
\* or the chosen value is not a number, and accepted when userId alone is
\* the id of an existing admin
C22_SubjectFromSubOrUserId ==
  [][VerifyStep /\ SignedNow(last'.token) /\ ~PastExpiry(last'.token.payload) =>
       LET payload == last'.token.payload
           chosen == Subject(payload)
       IN /\ chosen.type # "number" => last'.result = "null"
          /\ last'.result = "admin" => last'.id = chosen.num
          /\ payload.sub = Undefined /\ payload.userId.type = "number"
               /\ (\E a \in admin_users : a.id = payload.userId.num)
               => last'.result = "admin" /\ last'.id = payload.userId.num]_vars

\* a step in which adminLogin issued a token
LoginStep == last' # last /\ last'.op = "adminLogin" /\ last'.result = "token"

\* C23: every token a successful login issues carries the id of the admin as
\* its subject and an expiry 24 hours after the time of issue
C23_LoginTokenContents ==
  [][LoginStep =>
       \E t \in tokens' :
         /\ t.signature = Sign(JWT_SECRET, t.payload)
         /\ Subject(t.payload) = Num(last'.id)
         /\ t.payload.exp = Num(now + 24 * 3600)]_vars

\* ---- updateOrderStatus ----
\* C24: updateOrderStatus sets the status of an existing order to the one
\* asked for, whatever the order's status was, and leaves every other order
\* alone; for an id without an order it returns null and changes no order
C24_AnyStatusTransition ==
  /\ [](\A o \in orders, st \in OrderStatus :
          ENABLED (/\ UpdateOrderStatus(Jwt(TestPayload, Sign(JWT_SECRET, TestPayload)), o.id, st)
                   /\ \E o2 \in orders' : o2.id = o.id /\ o2.status = st))
  /\ [][last'.op = "updateOrderStatus" =>
          \A t \in TestTokens, id \in OrderIds, st \in OrderStatus :
            Authorized(t) /\ last'.id = id /\ UpdateOrderStatus(t, id, st) =>
              IF \E o \in orders : o.id = id
              THEN /\ last'.result = "order"
                   /\ orders' = {IF o.id = id THEN [o EXCEPT !.status = st] ELSE o : o \in orders}
                   /\ \E o \in orders' : o.id = id /\ o.status = st
              ELSE /\ last'.result = "null"
                   /\ orders' = orders]_vars

\* the order the last call named is delivered and the other one cancelled:
\* from here every status can be asked for again
C24_Witness ==
  /\ last.op = "updateOrderStatus"
  /\ last.result = "order"
  /\ \E o \in orders : o.id = last.id /\ o.status = "delivered"
  /\ \E o \in orders : o.id # last.id /\ o.status = "cancelled"

\* ---- addToCart, also for an item that is not in the catalog ----
NextCartMissing ==
  \E p \in Procs, s \in Sessions, q \in Quantities :
    AddToCartItem(p, s, MaxItemId + 1, q)

SpecCart == InitShop /\ [][NextCart \/ NextCartMissing]_vars

\* the stock of an item, -1 when the item is not in the catalog
StockOf(itemId) ==
  IF \E j \in jewelry_items : j.id = itemId
  THEN (CHOOSE j \in jewelry_items : j.id = itemId).stock_quantity
  ELSE -1

\* the session's cart lines for an item
LinesFor(sessionId, itemId) ==
  {c \in cart_items : c.session_id = sessionId /\ c.jewelry_item_id = itemId}

\* C25: addToCart throws and leaves the cart as it was when the item is not
\* in the catalog, when the quantity asked for is above the item's stock, and
\* when the session's line for the item plus the quantity asked for is above
\* the stock; otherwise the session's cart ends up holding the item with the
\* line's quantity plus the quantity asked for
C25_AddToCartChecks ==
  [][\A p \in Procs :
       /\ req[p].pc = "idle" /\ (req'[p].pc = "existing" \/ last'.op = "addToCart") =>
            \A s \in Sessions, i \in 1..(MaxItemId + 1), q \in Quantities :
              AddToCartItem(p, s, i, q) =>
                /\ cart_items' = cart_items
                /\ IF StockOf(i) < q
                   THEN last'.result = "throw" /\ req'[p].pc = "idle"
                   ELSE req'[p].pc = "existing"
       /\ req[p].pc = "existing" /\ AddToCartExisting(p) =>
            LET rows == LinesFor(req[p].session_id, req[p].jewelry_item_id)
                q == req[p].quantity
                stock == StockOf(req[p].jewelry_item_id)
            IN /\ cart_items' = cart_items
               /\ rows = {} => req'[p].pc = "insert"
               /\ rows # {} /\ (\A c \in rows : c.quantity + q > stock) =>
                    last'.result = "throw" /\ req'[p].pc = "idle"
               /\ rows # {} /\ (\A c \in rows : c.quantity + q <= stock) =>
                    /\ req'[p].pc = "update"
                    /\ \E c \in rows : /\ req'[p].existingId = c.id
                                        /\ req'[p].newQuantity = c.quantity + q
       /\ req[p].pc = "update" /\ AddToCartUpdate(p) =>
            IF \E c \in cart_items : c.id = req[p].existingId
            THEN /\ last'.result = "cart"
                 /\ \E c \in cart_items' :
                      /\ c.session_id = req[p].session_id
                      /\ c.jewelry_item_id = req[p].jewelry_item_id
                      /\ c.id = req[p].existingId /\ c.quantity = req[p].newQuantity
                 /\ \A c \in cart_items : c.id # req[p].existingId => c \in cart_items'
            ELSE last'.result = "throw" /\ cart_items' = cart_items
       /\ req[p].pc = "insert" /\ AddToCartInsert(p) =>
            /\ last'.result = "cart"
            /\ \E c \in cart_items' :
                 /\ c.session_id = req[p].session_id
                 /\ c.jewelry_item_id = req[p].jewelry_item_id
                 /\ c \notin cart_items /\ c.quantity = req[p].quantity
            /\ cart_items \subseteq cart_items'
            /\ Cardinality(cart_items') = Cardinality(cart_items) + 1]_vars

\* the cart holds a line of three: a line of one and two more, or two and one
C25_Witness ==
  /\ last.op = "addToCart"
  /\ last.result = "cart"
  /\ \E c \in LinesFor(last.session_id, last.id) : c.quantity = MaxQty + 1

\* ---- orders and their lines ----
\* the lines of an order
OrderLinesOf(orderId) == {l \in order_items : l.order_id = orderId}

\* C26: in every state the total_amount of every order is the sum over its
\* lines of price_at_time times quantity, and every order has a line
C26_TotalIsSumOfLines ==
  \A o \in orders :
    /\ OrderLinesOf(o.id) # {}
    /\ o.total_amount =
         SumOver([l \in OrderLinesOf(o.id) |-> l.price_at_time * l.quantity], OrderLinesOf(o.id))

\* an order of two lines, one of them for two pieces
C26_Witness ==
  \E o \in orders :
    /\ Cardinality(OrderLinesOf(o.id)) = 2
    /\ \E l \in OrderLinesOf(o.id) : l.quantity = 2
    /\ o.total_amount = 2 * 1999 + 599

\* the stock the shop opened with
InitialStock(itemId) == IF itemId = 1 THEN MaxStock ELSE 1

\* the pieces of an item on a set of order lines
Pieces(lines, itemId) ==
  LET mine == {l \in lines : l.jewelry_item_id = itemId}
  IN SumOver([l \in mine |-> l.quantity], mine)

\* C27: with no admin edits, for every item the opening stock is the current
\* stock plus the pieces on all order lines for it, and a step lowers a stock
\* only by the pieces on the order lines it creates
C27_StockConservation ==
  /\ [](\A j \in jewelry_items :
          InitialStock(j.id) = j.stock_quantity + Pieces(order_items, j.id))
  /\ [][\A j \in jewelry_items : \E k \in jewelry_items' :
          /\ k.id = j.id
          /\ j.stock_quantity - k.stock_quantity = Pieces(order_items' \ order_items, j.id)]_vars

\* stock and order lines still add up to the opening stock after two orders
\* have overdrawn the item
C27_Witness ==
  \E j \in jewelry_items :
    /\ j.stock_quantity < 0
    /\ Pieces(order_items, j.id) = InitialStock(j.id) - j.stock_quantity

\* ---- createOrder called twice for one cart ----
\* C28: of two overlapping calls for the same session on the same cart lines
\* at most one creates an order; where carts are filled once and never get a
\* new line, that is: no session ever has a second order
C28_OneOrderPerCart ==
  \A s \in Sessions : Cardinality({o \in orders : o.session_id = s}) <= 1

\* C29: every cart line a committing createOrder deletes is on a line of the
\* order it creates, with the same item and quantity
C29_NoCartLineLost ==
  [][\A p \in Procs : CommitStep(p) =>
       \A c \in cart_items \ cart_items' :
         \E l \in order_items' \ order_items :
           /\ l.jewelry_item_id = c.jewelry_item_id
           /\ l.quantity = c.quantity]_vars

\* a step in which a createOrder call for the session ended or moved on:
\* it returned null, went on to its transaction, committed or threw
CreateOrderStep(sessionId) ==
  \/ RejectedStep(sessionId)
  \/ \E p \in Procs :
       /\ LoadedStep(p) /\ req'[p].session_id = sessionId
  \/ \E p \in Procs :
       /\ req[p].pc = "transaction" /\ req'[p].pc = "idle"
       /\ req[p].session_id = sessionId

\* C30: a createOrder call for a session, whether it succeeds or is
\* rejected, leaves the cart lines of every other session as they were
C30_OtherCartsUntouched ==
  [][\A s \in Sessions : CreateOrderStep(s) =>
       \A other \in Sessions \ {s} :
         {c \in cart_items' : c.session_id = other} = LinesOf(other)]_vars

\* an order was just created for one session while the other session's cart
\* still holds its lines
C30_Witness ==
  /\ last.op = "createOrder"
  /\ last.result = "order"
  /\ LinesOf(last.session_id) = {}
  /\ \E other \in Sessions \ {last.session_id} : LinesOf(other) # {}
====
